---- MODULE Spec2Model ----
(***************************************************************************)
(* Model of TrainingLoop (src/src/training.py): the epoch / batch /        *)
(* validation control flow of TrainingLoop.__call__ and the dispatch of    *)
(* the four lifecycle hooks to the callback list.                          *)
(*                                                                         *)
(* The external collaborators are abstracted by what the loop can observe  *)
(* of them:                                                                *)
(*   - the model is the version number of its parameters, i.e. the number  *)
(*     of in-place updates applied to it so far;                           *)
(*   - the Adam optimizer is the step count it keeps in its own state;     *)
(*   - a loss is identified by the parameter version and the input it was  *)
(*     computed from;                                                      *)
(*   - the loaders returned by split_dataset are their numbers of batches. *)
(* trace, calls and first are observation variables: the sequence of       *)
(* observable events of the running call, the number of calls made and     *)
(* what the previous call left behind.                                     *)
(***************************************************************************)
EXTENDS Integers, Sequences, FiniteSets, TLC

\* ---------------------------------------------------------------- bounds
MaxEpochs == 2
MaxBatches == 3
MaxValBatches == 1
MaxValFreq == 3
MaxCallbacks == 2
MaxCalls == 2

\* ------------------------------------------------------- python values
\* A local name that is not bound yet (absent from locals()).
Unbound == -1
\* The result numpy gives for a remainder by 0.0 (a warning, no exception).
NaN == -2
\* callbacks=None, the default of the constructor.
None == <<0>>

Hooks == {"on_epoch_begin", "on_batch_begin", "on_batch_end", "on_epoch_end"}

VARIABLES
    callbacks_arg,   \* the callbacks argument given to __init__
    callbacks,       \* self.callbacks
    n_epochs,        \* self.n_epochs
    val_frequency,   \* self.val_frequency
    dataset,         \* self.dataset, as split_dataset partitions it
    model,           \* self.model: version of the parameters
    optimizer,       \* local optimizer: step count of its state
    n_batches,       \* local n_batches
    n_eval_batches,  \* local n_eval_batches
    epoch,           \* local epoch
    batch,           \* local batch
    train_iter,      \* position of enumerate(train_loader)
    img,             \* local img
    loss,            \* local loss
    val_iter,        \* position of enumerate(validation_loader)
    val_losses,      \* local val_losses
    pc,              \* position of the call
    cb,              \* position of _execute_callbacks in self.callbacks
    error,           \* the exception that ended the call, if any
    trace,           \* events of the running call
    calls,           \* number of calls of __call__ so far
    first            \* trace, model and optimizer left by the previous call

config == <<callbacks_arg, callbacks, n_epochs, val_frequency, dataset>>
locals == <<optimizer, n_batches, n_eval_batches, epoch, batch, train_iter,
            img, loss, val_iter, val_losses>>
vars == <<callbacks_arg, callbacks, n_epochs, val_frequency, dataset, model,
          optimizer, n_batches, n_eval_batches, epoch, batch, train_iter,
          img, loss, val_iter, val_losses, pc, cb, error, trace, calls, first>>

\* ------------------------------------------------------------- helpers
NoImg == [loader |-> "none", index |-> Unbound]
NoLoss == [model |-> Unbound, img |-> NoImg]

\* Lists of at most n callbacks. The callbacks of a list are distinct
\* objects; a callback is named by a number, which is not its place in
\* the list.
CallbackLists(n) == {[i \in 1..k |-> k + 1 - i] : k \in 0..n}

\* self.callbacks = callbacks if callbacks else []
InitCallbacks(arg) == IF arg = None \/ arg = <<>> THEN <<>> ELSE arg

\* The local data: the batch the training iterator yielded last.
data == [loader |-> "train", index |-> batch]

\* loss, loss_components = self.model(img): a forward computation.
Forward(m, x) == [model |-> m, img |-> x]

\* np.floor(n_batches / val_frequency), val_frequency # 0
Floor(n, f) == n \div f

\* x % m with m a numpy float: nan when m is 0.0
NpMod(x, m) == IF m = 0 THEN NaN ELSE x % m

\* (batch+1) % n_eval_batches == 0
ValidationDue_off(b, k) == NpMod(b, k) = 0
ValidationDue(b, k) == NpMod(b + 1, k) = 0

\* for callback in self.callbacks: the i-th callback visited
NthCallback_rev(i) == callbacks[Len(callbacks) + 1 - i]
NthCallback(i) == callbacks[i]

\* Some event of the given kind is in the trace of the running call.
Happened(kind) == \E i \in DOMAIN trace : trace[i].kind = kind

\* locals() where __call__ captures it (lines 88, 100 and 117): the names
\* bound in the frame. local_variables is bound at none of these places.
Locals ==
    {"self", "model", "dataset", "n_epochs", "batch_size", "val_size",
     "val_frequency", "learning_rate", "train_loader", "validation_loader",
     "test_loader", "n_instances", "optimizer", "n_batches", "n_eval_batches"}
    \cup (IF epoch # Unbound THEN {"epoch"} ELSE {})
    \cup (IF batch # Unbound
          THEN {"batch", "data", "img", "_", "loss", "loss_components"}
          ELSE {})
    \cup (IF Happened("validation_begin") THEN {"val_losses"} ELSE {})
    \cup (IF Happened("val_forward")
          THEN {"val_batch", "val_data", "val_loss", "val_loss_components"}
          ELSE {})
    \cup (IF Happened("validation_report") THEN {"avg_val_loss"} ELSE {})

\* remove_self: del dictionary['self']
remove_self(dictionary) == dictionary \ {"self"}

\* remove_self(locals()) as a hook receives it, and the events of the call
Event(kind, c) ==
    [kind |-> kind, cb |-> c, epoch |-> epoch, batch |-> batch,
     model |-> model, optimizer |-> optimizer, loss |-> loss, img |-> img,
     val_losses |-> val_losses, keys |-> remove_self(Locals)]

\* The straight-line part of the loop body: what follows each step.
NextPc_swapped(p) ==
    CASE p = "on_epoch_begin" -> "on_batch_begin"
      [] p = "on_batch_begin" -> "on_batch_end"
      [] p = "on_batch_end" -> "optimize"
      [] p = "optimize" -> "val_check"
      [] p = "validate" -> "batch_loop"
      [] p = "on_epoch_end" -> "epoch_loop"
NextPc_nobegin(p) ==
    CASE p = "on_epoch_begin" -> "optimize"
      [] p = "on_batch_begin" -> "optimize"
      [] p = "optimize" -> "on_batch_end"
      [] p = "on_batch_end" -> "val_check"
      [] p = "validate" -> "batch_loop"
      [] p = "on_epoch_end" -> "epoch_loop"
NextPc(p) ==
    CASE p = "on_epoch_begin" -> "on_batch_begin"
      [] p = "on_batch_begin" -> "optimize"
      [] p = "optimize" -> "on_batch_end"
      [] p = "on_batch_end" -> "val_check"
      [] p = "validate" -> "batch_loop"
      [] p = "on_epoch_end" -> "epoch_loop"

\* torch.optim.Adam(model.parameters(), ...): a new optimizer, no steps yet
NewOptimizer_kept == IF optimizer = Unbound THEN 0 ELSE optimizer
NewOptimizer == 0

\* ---------------------------------------------------------------- Init
\* The arguments of the constructor and the sizes of the loaders: all the
\* small ones, and the case of 20 batches with 4 validations per epoch.
Configs ==
    [callbacks_arg : {None} \cup CallbackLists(MaxCallbacks),
     n_epochs : 0..MaxEpochs,
     val_frequency : 0..MaxValFreq,
     train : 0..MaxBatches,
     val : 0..MaxValBatches]
    \cup
    [callbacks_arg : {None} \cup CallbackLists(1),
     n_epochs : {1},
     val_frequency : {4},
     train : {20},
     val : {0, 1}]

\* The state after __init__(..) with the arguments c.
InitWith(c) ==
    /\ callbacks_arg = c.callbacks_arg
    /\ callbacks = InitCallbacks(c.callbacks_arg)
    /\ n_epochs = c.n_epochs
    /\ val_frequency = c.val_frequency
    /\ dataset = [train_loader |-> c.train, validation_loader |-> c.val]
    /\ model = 0
    /\ optimizer = Unbound
    /\ n_batches = Unbound
    /\ n_eval_batches = Unbound
    /\ epoch = Unbound
    /\ batch = Unbound
    /\ train_iter = 0
    /\ img = NoImg
    /\ loss = NoLoss
    /\ val_iter = 0
    /\ val_losses = <<>>
    /\ pc = "idle"
    /\ cb = 1
    /\ error = "none"
    /\ trace = <<>>
    /\ calls = 0
    /\ first = [trace |-> <<>>, model |-> 0, optimizer |-> Unbound]

Init == \E c \in Configs : InitWith(c)

\* ------------------------------------------------------------- actions
\* __call__ up to the epoch loop: a new frame, the loaders, the optimizer
\* and the validation interval. n_batches / val_frequency divides two
\* python ints and raises ZeroDivisionError when val_frequency is 0.
Call ==
    /\ pc \in {"idle", "done"}
    /\ calls < MaxCalls
    /\ calls' = calls + 1
    /\ first' = IF calls = 0 THEN first
                ELSE [trace |-> trace, model |-> model, optimizer |-> optimizer]
    /\ trace' = <<>>
    /\ optimizer' = NewOptimizer
    /\ n_batches' = dataset.train_loader
    /\ epoch' = Unbound
    /\ batch' = Unbound
    /\ train_iter' = 0
    /\ img' = NoImg
    /\ loss' = NoLoss
    /\ val_iter' = 0
    /\ val_losses' = <<>>
    /\ cb' = 1
    /\ IF val_frequency = 0
       THEN /\ n_eval_batches' = Unbound
            /\ pc' = "aborted"
            /\ error' = "ZeroDivisionError"
       ELSE /\ n_eval_batches' = Floor(dataset.train_loader, val_frequency)
            /\ pc' = "epoch_loop"
            /\ error' = "none"
    /\ UNCHANGED <<config, model>>

\* range(1, n_epochs+1): the last value it yields
LastEpoch_short == n_epochs - 1
LastEpoch == n_epochs

\* for epoch in range(1, n_epochs+1): the next epoch
NextEpoch ==
    /\ pc = "epoch_loop"
    /\ (IF epoch = Unbound THEN 1 ELSE epoch + 1) <= LastEpoch
    /\ epoch' = IF epoch = Unbound THEN 1 ELSE epoch + 1
    /\ train_iter' = 0
    /\ pc' = "batch_loop"
    /\ UNCHANGED <<config, model, optimizer, n_batches, n_eval_batches, batch,
                   img, loss, val_iter, val_losses, cb, error, trace, calls,
                   first>>

\* for epoch in range(1, n_epochs+1): exhausted, __call__ returns
Return ==
    /\ pc = "epoch_loop"
    /\ (IF epoch = Unbound THEN 1 ELSE epoch + 1) > LastEpoch
    /\ pc' = "done"
    /\ UNCHANGED <<config, model, locals, cb, error, trace, calls, first>>

\* for batch, data in enumerate(train_loader): the next batch, its forward
\* computation and the choice of the first hook
NextBatch ==
    /\ pc = "batch_loop"
    /\ train_iter < dataset.train_loader
    /\ batch' = train_iter
    /\ train_iter' = train_iter + 1
    /\ img' = [loader |-> "train", index |-> train_iter]
    /\ loss' = Forward(model, img')
    /\ trace' = Append(trace, [kind |-> "forward", cb |-> 0, epoch |-> epoch,
                               batch |-> batch', model |-> model,
                               optimizer |-> optimizer,
                               loss |-> loss', img |-> img',
                               val_losses |-> val_losses, keys |-> {}])
    /\ pc' = IF batch' = 0 THEN "on_epoch_begin" ELSE "on_batch_begin"
    /\ cb' = 1
    /\ UNCHANGED <<config, model, optimizer, n_batches, n_eval_batches, epoch,
                   val_iter, val_losses, error, calls, first>>

\* for batch, data in enumerate(train_loader): exhausted
EndOfBatches ==
    /\ pc = "batch_loop"
    /\ train_iter >= dataset.train_loader
    /\ pc' = "on_epoch_end"
    /\ cb' = 1
    /\ UNCHANGED <<config, model, locals, error, trace, calls, first>>

\* A hook of a callback raises: nothing catches it, the call ends.
CallbackRaises_swallowed ==
    /\ error' = "callback"
    /\ cb' = cb + 1
    /\ UNCHANGED pc
CallbackRaises ==
    /\ error' = "callback"
    /\ pc' = "aborted"
    /\ UNCHANGED cb

\* _execute_callbacks: getattr(callback, hook)(**local_variables) for the
\* next callback of the list; the hook returns or raises.
Invoke ==
    /\ pc \in Hooks
    /\ cb <= Len(callbacks)
    /\ trace' = Append(trace, Event(pc, NthCallback(cb)))
    /\ \/ /\ cb' = cb + 1
          /\ UNCHANGED <<pc, error>>
       \/ CallbackRaises
    /\ UNCHANGED <<config, model, locals, calls, first>>

\* _execute_callbacks returns: every callback of the list was visited
Dispatched ==
    /\ pc \in Hooks
    /\ cb > Len(callbacks)
    /\ pc' = NextPc(pc)
    /\ cb' = 1
    /\ UNCHANGED <<config, model, locals, error, trace, calls, first>>

\* optimizer.zero_grad(); loss.backward(); optimizer.step()
Optimize_recompute ==
    /\ pc = "optimize"
    /\ model' = model + 1
    /\ optimizer' = optimizer + 1
    /\ loss' = Forward(model', img)
    /\ trace' = Append(trace, Event("optimizer_step", 0))
    /\ pc' = NextPc(pc)
    /\ cb' = 1
    /\ UNCHANGED <<config, n_batches, n_eval_batches, epoch, batch, train_iter,
                   img, val_iter, val_losses, error, calls, first>>
Optimize ==
    /\ pc = "optimize"
    /\ model' = model + 1
    /\ optimizer' = optimizer + 1
    /\ trace' = Append(trace, Event("optimizer_step", 0))
    /\ pc' = NextPc(pc)
    /\ cb' = 1
    /\ UNCHANGED <<config, n_batches, n_eval_batches, epoch, batch, train_iter,
                   img, loss, val_iter, val_losses, error, calls, first>>

\* if (batch+1) % n_eval_batches == 0: val_losses = []
CheckValidation ==
    /\ pc = "val_check"
    /\ IF ValidationDue(batch, n_eval_batches)
       THEN /\ pc' = "validate"
            /\ val_losses' = <<>>
            /\ val_iter' = 0
            /\ trace' = Append(trace, Event("validation_begin", 0))
       ELSE /\ pc' = "batch_loop"
            /\ UNCHANGED <<val_losses, val_iter, trace>>
    /\ UNCHANGED <<config, model, optimizer, n_batches, n_eval_batches, epoch,
                   batch, train_iter, img, loss, cb, error, calls, first>>

\* for val_batch, val_data in enumerate(validation_loader): one batch;
\* img is taken from data, the batch of the training loader
ValidationBatch_valdata ==
    /\ pc = "validate"
    /\ val_iter < dataset.validation_loader
    /\ val_iter' = val_iter + 1
    /\ img' = [loader |-> "val", index |-> val_iter]
    /\ val_losses' = Append(val_losses, Forward(model, img'))
    /\ trace' = Append(trace, [kind |-> "val_forward", cb |-> 0,
                               epoch |-> epoch, batch |-> batch,
                               model |-> model, optimizer |-> optimizer,
                               loss |-> loss, img |-> img',
                               val_losses |-> val_losses', keys |-> {}])
    /\ UNCHANGED <<config, model, optimizer, n_batches, n_eval_batches, epoch,
                   batch, train_iter, loss, pc, cb, error, calls, first>>
ValidationBatch_trains ==
    /\ pc = "validate"
    /\ val_iter < dataset.validation_loader
    /\ val_iter' = val_iter + 1
    /\ img' = data
    /\ val_losses' = Append(val_losses, Forward(model, img'))
    /\ model' = model + 1
    /\ optimizer' = optimizer + 1
    /\ trace' = Append(trace, [kind |-> "val_forward", cb |-> 0,
                               epoch |-> epoch, batch |-> batch,
                               model |-> model, optimizer |-> optimizer,
                               loss |-> loss, img |-> img',
                               val_losses |-> val_losses', keys |-> {}])
    /\ UNCHANGED <<config, n_batches, n_eval_batches, epoch,
                   batch, train_iter, loss, pc, cb, error, calls, first>>
ValidationBatch ==
    /\ pc = "validate"
    /\ val_iter < dataset.validation_loader
    /\ val_iter' = val_iter + 1
    /\ img' = data
    /\ val_losses' = Append(val_losses, Forward(model, img'))
    /\ trace' = Append(trace, [kind |-> "val_forward", cb |-> 0,
                               epoch |-> epoch, batch |-> batch,
                               model |-> model, optimizer |-> optimizer,
                               loss |-> loss, img |-> img',
                               val_losses |-> val_losses', keys |-> {}])
    /\ UNCHANGED <<config, model, optimizer, n_batches, n_eval_batches, epoch,
                   batch, train_iter, loss, pc, cb, error, calls, first>>

\* the validation loader is exhausted: the mean is computed and printed
ValidationReport ==
    /\ pc = "validate"
    /\ val_iter >= dataset.validation_loader
    /\ trace' = Append(trace, Event("validation_report", 0))
    /\ pc' = NextPc(pc)
    /\ UNCHANGED <<config, model, locals, cb, error, calls, first>>

Next ==
    \/ Call
    \/ NextEpoch
    \/ Return
    \/ NextBatch
    \/ EndOfBatches
    \/ Invoke
    \/ Dispatched
    \/ Optimize
    \/ CheckValidation
    \/ ValidationBatch
    \/ ValidationReport

Spec == Init /\ [][Next]_vars

\* The steps of a call that is running. The call is synchronous and
\* single-threaded: while it has a next step, it takes it.
Running ==
    \/ NextEpoch
    \/ Return
    \/ NextBatch
    \/ EndOfBatches
    \/ Invoke
    \/ Dispatched
    \/ Optimize
    \/ CheckValidation
    \/ ValidationBatch
    \/ ValidationReport

\* The configurations termination is checked for: the ends of the range
\* of val_frequency and of the validation loader, no callbacks or the
\* longest list, every number of epochs and of training batches.
LiveConfigs ==
    [callbacks_arg : {None} \cup (CallbackLists(MaxCallbacks)
                                    \ CallbackLists(MaxCallbacks - 1)),
     n_epochs : 0..MaxEpochs,
     val_frequency : {0, 1, MaxValFreq},
     train : 0..MaxBatches,
     val : {0, MaxValBatches}]

LiveInit == \E c \in LiveConfigs : InitWith(c)

LiveSpec == LiveInit /\ [][Next]_vars /\ WF_vars(Running)

\* ---------------------------------------------------- reading the trace
\* Positions of the events of one kind in one epoch of the running call.
EventsOf(kind, e) ==
    {i \in DOMAIN trace : trace[i].kind = kind /\ trace[i].epoch = e}

\* Positions of the events of one kind for one batch of one epoch.
BatchEventsOf(kind, e, b) ==
    {i \in EventsOf(kind, e) : trace[i].batch = b}

\* How often callback c occurs in self.callbacks.
Occurrences(c) == Cardinality({i \in DOMAIN callbacks : callbacks[i] = c})

\* The batch loop of the current epoch is exhausted and nothing was raised.
EpochCompleted ==
    /\ pc \in {"on_epoch_end", "epoch_loop", "done"}
    /\ epoch # Unbound

LastEvent == trace[Len(trace)]

\* -------------------------------------------------------------- claims

\* C1: in each epoch every callback's on_batch_begin, and likewise its
\* on_batch_end, is invoked exactly as many times as the training loader
\* has batches (once per batch for each place the callback has in the list).
C1_BatchHooksPerEpoch ==
    EpochCompleted =>
        \A e \in 1..epoch : \A c \in 1..MaxCallbacks :
            \A h \in {"on_batch_begin", "on_batch_end"} :
                Cardinality({i \in EventsOf(h, e) : trace[i].cb = c})
                    = dataset.train_loader * Occurrences(c)

C1_Witness ==
    /\ pc = "done"
    /\ epoch = 2
    /\ dataset.train_loader >= 3
    /\ Len(callbacks) = 2
    /\ error = "none"
    /\ Cardinality(EventsOf("on_batch_begin", 2)) = 2 * dataset.train_loader

\* C2: in every epoch, whatever the size of the training partition (zero
\* batches included), on_epoch_begin is dispatched exactly once, with batch
\* index 0 and before that batch's on_batch_begin, and on_epoch_end is
\* dispatched exactly once, after the last batch.
C2_EpochHooksOnce ==
    (pc \in {"epoch_loop", "done"} /\ epoch # Unbound) =>
        \A e \in 1..epoch : \A c \in 1..MaxCallbacks :
            /\ Cardinality({i \in EventsOf("on_epoch_begin", e) :
                                trace[i].cb = c}) = Occurrences(c)
            /\ Cardinality({i \in EventsOf("on_epoch_end", e) :
                                trace[i].cb = c}) = Occurrences(c)
            /\ \A i \in EventsOf("on_epoch_begin", e) :
                   /\ trace[i].batch = 0
                   /\ \A j \in BatchEventsOf("on_batch_begin", e, 0) : i < j
            /\ \A i \in EventsOf("on_epoch_end", e) :
                   \A j \in DOMAIN trace :
                       (trace[j].epoch = e /\ trace[j].kind # "on_epoch_end")
                           => j < i

\* C3: the on_batch_begin dispatch of a batch is complete before the
\* optimizer step of that batch and its on_batch_end comes after it; exactly
\* one update lies between them, so on_batch_end observes the parameters
\* one version after the ones on_batch_begin observed.
C3_StepBetweenBatchHooks ==
    LET n == Len(trace) IN
    /\ (n > 0 /\ LastEvent.kind = "optimizer_step") =>
           /\ Cardinality(BatchEventsOf("on_batch_begin", LastEvent.epoch,
                                        LastEvent.batch)) = Len(callbacks)
           /\ BatchEventsOf("on_batch_end", LastEvent.epoch,
                            LastEvent.batch) = {}
    /\ (n > 0 /\ LastEvent.kind = "on_batch_end") =>
           /\ Cardinality(BatchEventsOf("optimizer_step", LastEvent.epoch,
                                        LastEvent.batch)) = 1
           /\ Cardinality(BatchEventsOf("on_batch_begin", LastEvent.epoch,
                                        LastEvent.batch)) = Len(callbacks)
           /\ \A i \in BatchEventsOf("on_batch_begin", LastEvent.epoch,
                                     LastEvent.batch) :
                  /\ trace[i].model + 1 = LastEvent.model
                  /\ \A j \in BatchEventsOf("optimizer_step", LastEvent.epoch,
                                            LastEvent.batch) :
                         i < j /\ trace[j].model = trace[i].model

C3_Witness ==
    /\ Len(trace) > 0
    /\ LastEvent.kind = "on_batch_end"
    /\ LastEvent.batch >= 1
    /\ LastEvent.epoch = 2
    /\ Len(callbacks) = 2
    /\ cb = 3

\* C4: a validation pass leaves the model parameters and the optimizer's
\* step count as they were before it.
C4_ValidationKeepsModel ==
    [][(pc = "val_check" \/ pc = "validate")
          => (model' = model /\ optimizer' = optimizer)]_vars

C4_Witness ==
    /\ pc = "batch_loop"
    /\ Len(trace) > 0
    /\ LastEvent.kind = "validation_report"
    /\ Len(val_losses) >= 1
    /\ model >= 2

\* Batches of epoch e after which a validation pass was started.
ValidatedBatches(e) ==
    {trace[i].batch : i \in EventsOf("validation_begin", e)}

\* The batches after which the interval floor(n / f) makes validation due.
DueBatches(n, f) ==
    IF n \div f = 0 THEN {}
    ELSE {b \in 0..(n - 1) : (b + 1) % (n \div f) = 0}

\* C5: in each epoch a validation pass runs after on_batch_end of batch b
\* exactly when (b + 1) % floor(n_batches / val_frequency) = 0, once, and
\* after no other batch; with 20 batches and val_frequency 4 these are the
\* batches 4, 9, 14 and 19.
C5_ValidationSchedule ==
    /\ EpochCompleted =>
           \A e \in 1..epoch :
               /\ ValidatedBatches(e)
                      = DueBatches(dataset.train_loader, val_frequency)
               /\ Cardinality(EventsOf("validation_begin", e))
                      = Cardinality(ValidatedBatches(e))
               /\ (dataset.train_loader = 20 /\ val_frequency = 4)
                      => ValidatedBatches(e) = {4, 9, 14, 19}
    /\ (Len(trace) > 0 /\ LastEvent.kind = "validation_begin") =>
           /\ LastEvent.batch
                  \in DueBatches(dataset.train_loader, val_frequency)
           /\ Cardinality(BatchEventsOf("on_batch_end", LastEvent.epoch,
                                        LastEvent.batch)) = Len(callbacks)
           /\ trace[Len(trace) - 1].kind
                  = (IF callbacks = <<>> THEN "optimizer_step"
                     ELSE "on_batch_end")
           /\ trace[Len(trace) - 1].batch = LastEvent.batch

C5_Witness ==
    /\ pc = "done"
    /\ dataset.train_loader = 20
    /\ val_frequency = 4
    /\ Len(callbacks) = 1
    /\ ValidatedBatches(1) = {4, 9, 14, 19}

\* C6: with val_frequency > n_batches the call fails fast with a
\* configuration error: no batch, hook or optimizer step is run.
C6_ZeroIntervalFailsFast ==
    (val_frequency > dataset.train_loader /\ pc # "idle") =>
        /\ pc = "aborted"
        /\ error = "ConfigurationError"
        /\ trace = <<>>

\* C7: once a hook has raised, the call is over: nothing catches the
\* exception and no hook, optimizer step, validation, batch or epoch follows.
C7_AbortOnRaise ==
    /\ [](error = "callback" => pc = "aborted")
    /\ [][error = "callback" =>
              UNCHANGED <<trace, model, optimizer, epoch, batch, train_iter,
                          val_iter, cb, pc>>]_vars

C7_Witness ==
    /\ pc = "aborted"
    /\ error = "callback"
    /\ LastEvent.kind = "on_batch_end"
    /\ cb < Len(callbacks)
    /\ train_iter < dataset.train_loader
    /\ epoch < n_epochs

\* The event at position i opens a dispatch other than the one of i - 1,
\* or is no hook at all.
LeavesDispatch(i) ==
    \/ trace[i].kind # trace[i - 1].kind
    \/ trace[i].epoch # trace[i - 1].epoch
    \/ trace[i].batch # trace[i - 1].batch

\* C8: a dispatch invokes the callbacks in list order, each once, with the
\* same context, and is complete before the loop goes on; callbacks=None
\* is the empty list.
C8_DispatchInListOrder ==
    LET n == Len(trace) IN
    /\ pc \in Hooks =>
           /\ n >= cb - 1
           /\ \A i \in 1..(cb - 1) :
                  trace[n - (cb - 1) + i] = Event(pc, callbacks[i])
           /\ (n > cb - 1) =>
                  \/ trace[n - (cb - 1)].kind # pc
                  \/ trace[n - (cb - 1)].epoch # epoch
                  \/ trace[n - (cb - 1)].batch # batch
    /\ (n > 1 /\ trace[n - 1].kind \in Hooks /\ LeavesDispatch(n)) =>
           /\ n - 1 >= Len(callbacks)
           /\ \A i \in 1..Len(callbacks) :
                  /\ trace[n - 1 - Len(callbacks) + i].cb = callbacks[i]
                  /\ trace[n - 1 - Len(callbacks) + i].kind
                         = trace[n - 1].kind
    /\ callbacks_arg = None =>
           /\ callbacks = <<>>
           /\ \A i \in DOMAIN trace : trace[i].kind \notin Hooks

C8_Witness ==
    /\ pc = "optimize"
    /\ Len(callbacks) = 2
    /\ callbacks[1] # callbacks[2]
    /\ batch >= 1
    /\ trace[Len(trace)].cb = callbacks[2]
    /\ trace[Len(trace) - 1].cb = callbacks[1]

\* C9: each epoch performs exactly val_frequency validation passes,
\* whenever 1 <= val_frequency <= n_batches.
C9_ValidationsPerEpoch ==
    (EpochCompleted /\ 1 <= val_frequency
                    /\ val_frequency <= dataset.train_loader) =>
        \A e \in 1..epoch :
            Cardinality(EventsOf("validation_begin", e)) = val_frequency

\* The hook dispatches of a trace: hook, callback, epoch and batch index.
IsHookEvent(ev) == ev.kind \in Hooks
Dispatches(t) ==
    LET h == SelectSeq(t, IsHookEvent)
    IN [i \in DOMAIN h |-> [kind |-> h[i].kind, cb |-> h[i].cb,
                            epoch |-> h[i].epoch, batch |-> h[i].batch]]

\* Number of optimizer steps of the running call.
Steps == Cardinality({i \in DOMAIN trace : trace[i].kind = "optimizer_step"})

\* C10 as stated: a second call repeats the dispatches, epochs and batch
\* indices of the first, and both the model parameters and the optimizer
\* state carry on from where the first call left them.
C10_SecondCallCarriesOptimizer ==
    (calls = 2 /\ pc # "aborted") =>
        /\ pc = "done" => Dispatches(trace) = Dispatches(first.trace)
        /\ model = first.model + Steps
        /\ optimizer = first.optimizer + Steps

\* C10 amended: a second call after a first that returned repeats its
\* dispatches, epochs and batch indices; the model parameters carry on
\* from the first call, the optimizer is a new one whose state starts over.
C10_SecondCallRestarts ==
    (calls = 2 /\ pc # "aborted") =>
        /\ pc = "done" => Dispatches(trace) = Dispatches(first.trace)
        /\ (epoch # Unbound) => epoch \in 1..n_epochs
        /\ model = first.model + Steps
        /\ optimizer = Steps

C10_Witness ==
    /\ calls = 2
    /\ pc = "done"
    /\ epoch = 2
    /\ Len(callbacks) = 2
    /\ dataset.train_loader >= 2
    /\ first.optimizer = 2 * dataset.train_loader
    /\ model = 4 * dataset.train_loader
    /\ Dispatches(trace) = Dispatches(first.trace)

\* C11: with finite loaders and epochs a running call ends: it returns
\* unless something raised, and when it has returned every epoch
\* 1..n_epochs ran all its batches and was closed by one on_epoch_end
\* dispatch, n_epochs dispatches in total.
C11_ReachesDone ==
    /\ (pc \notin {"idle", "done", "aborted"})
           ~> (pc = "done" \/ error # "none")
    /\ [](pc = "done" =>
            /\ error = "none"
            /\ epoch = (IF n_epochs = 0 THEN Unbound ELSE n_epochs)
            /\ \A e \in 1..n_epochs :
                   /\ Cardinality(EventsOf("forward", e))
                          = dataset.train_loader
                   /\ Cardinality(EventsOf("on_epoch_end", e))
                          = Len(callbacks)
            /\ Cardinality({i \in DOMAIN trace :
                                trace[i].kind = "on_epoch_end"})
                   = n_epochs * Len(callbacks))

C11_Witness ==
    /\ pc = "done"
    /\ error = "none"
    /\ n_epochs = 2
    /\ dataset.train_loader >= 2
    /\ Len(callbacks) = 2
    /\ Cardinality(EventsOf("on_epoch_end", 2)) = 2

\* C12: a validation pass makes one forward computation per batch of the
\* validation loader, each of them on the input of the current training
\* batch (data) and none on a validation batch; the losses whose mean is
\* reported are losses on that training batch.
C12_ValidationReadsTrainingBatch ==
    (Len(trace) > 0) =>
        /\ LastEvent.kind = "val_forward" =>
               /\ LastEvent.img = [loader |-> "train",
                                   index |-> LastEvent.batch]
               /\ LastEvent.img = img
        /\ LastEvent.kind = "validation_report" =>
               /\ Cardinality(BatchEventsOf("val_forward", LastEvent.epoch,
                                            LastEvent.batch))
                      = dataset.validation_loader
               /\ Len(val_losses) = dataset.validation_loader
               /\ \A i \in DOMAIN val_losses :
                      /\ val_losses[i].img.loader = "train"
                      /\ val_losses[i] = Forward(model, data)

C12_Witness ==
    /\ Len(trace) > 0
    /\ LastEvent.kind = "validation_report"
    /\ dataset.validation_loader >= 1
    /\ batch >= 1
    /\ val_losses[1].img = [loader |-> "train", index |-> batch]

\* C13: the context a hook receives never holds self and always holds
\* epoch, batch, loss, loss_components, model and optimizer, also in an
\* epoch without training batches.
C13_ContextFields ==
    (Len(trace) > 0 /\ LastEvent.kind \in Hooks) =>
        /\ "self" \notin LastEvent.keys
        /\ {"epoch", "batch", "loss", "loss_components", "model",
            "optimizer"} \subseteq LastEvent.keys

\* The context of a hook event: the names it holds and their values.
ContextOf(ev) ==
    [epoch |-> ev.epoch, batch |-> ev.batch, model |-> ev.model,
     optimizer |-> ev.optimizer, loss |-> ev.loss, img |-> ev.img,
     val_losses |-> ev.val_losses, keys |-> ev.keys]

\* The names a validation pass binds.
ValidationNames ==
    {"val_losses", "val_batch", "val_data", "val_loss",
     "val_loss_components", "avg_val_loss"}

\* C14 as stated: the context of on_epoch_end is the context of the
\* on_batch_end dispatch of the last batch of the epoch, same fields and
\* same values, also when a validation pass ran after that batch.
C14_EpochEndContextIsLastBatchEnd ==
    (Len(trace) > 0 /\ LastEvent.kind = "on_epoch_end") =>
        \A i \in BatchEventsOf("on_batch_end", LastEvent.epoch,
                                dataset.train_loader - 1) :
            ContextOf(trace[i]) = ContextOf(LastEvent)

\* C14 amended: the context of on_epoch_end is captured anew after the
\* last batch. It agrees with the context of that batch's on_batch_end on
\* epoch, batch, loss, model, optimizer and input, and on everything when
\* no validation pass ran after the batch; a pass that ran adds or rebinds
\* only the names of the validation pass.
C14_EpochEndContextAfterValidation ==
    (Len(trace) > 0 /\ LastEvent.kind = "on_epoch_end") =>
        \A i \in BatchEventsOf("on_batch_end", LastEvent.epoch,
                                dataset.train_loader - 1) :
            /\ trace[i].epoch = LastEvent.epoch
            /\ trace[i].batch = LastEvent.batch
            /\ trace[i].model = LastEvent.model
            /\ trace[i].optimizer = LastEvent.optimizer
            /\ trace[i].loss = LastEvent.loss
            /\ trace[i].img = LastEvent.img
            /\ trace[i].keys \subseteq LastEvent.keys
            /\ (LastEvent.keys \ trace[i].keys) \subseteq ValidationNames
            /\ BatchEventsOf("validation_begin", LastEvent.epoch,
                             LastEvent.batch) = {}
                   => ContextOf(trace[i]) = ContextOf(LastEvent)

C14_Witness ==
    /\ Len(trace) > 0
    /\ LastEvent.kind = "on_epoch_end"
    /\ dataset.validation_loader >= 1
    /\ dataset.train_loader >= 2
    /\ BatchEventsOf("validation_begin", epoch, batch) # {}
    /\ \E i \in BatchEventsOf("on_batch_end", epoch, batch) :
           /\ "val_losses" \notin trace[i].keys
           /\ "val_losses" \in LastEvent.keys

\* The kinds of event that may directly follow an event of kind k.
MayFollow(k) ==
    CASE k = "forward" -> {"on_epoch_begin", "on_batch_begin",
                           "optimizer_step"}
      [] k = "on_epoch_begin" -> {"on_epoch_begin", "on_batch_begin"}
      [] k = "on_batch_begin" -> {"on_batch_begin", "optimizer_step"}
      [] k = "optimizer_step" -> {"on_batch_end", "validation_begin",
                                  "forward", "on_epoch_end"}
      [] k = "on_batch_end" -> {"on_batch_end", "validation_begin",
                                "forward", "on_epoch_end"}
      [] k = "validation_begin" -> {"val_forward", "validation_report"}
      [] k = "val_forward" -> {"val_forward", "validation_report"}
      [] k = "validation_report" -> {"forward", "on_epoch_end"}
      [] k = "on_epoch_end" -> {"on_epoch_end", "forward"}

\* Event q may come directly after event p.
InOrder(p, q) ==
    /\ q.kind \in MayFollow(p.kind)
    \* a new batch: the next one of the epoch, or the first of the next epoch
    /\ q.kind = "forward" =>
           \/ q.epoch = p.epoch /\ q.batch = p.batch + 1
           \/ /\ q.epoch = p.epoch + 1
              /\ q.batch = 0
              /\ p.batch = dataset.train_loader - 1
    \* everything else stays in its batch, but for epochs without batches
    /\ q.kind # "forward" =>
           /\ q.batch = p.batch
           /\ \/ q.epoch = p.epoch
              \/ /\ q.epoch = p.epoch + 1
                 /\ dataset.train_loader = 0
    /\ q.kind = "on_epoch_begin" => q.batch = 0
    /\ q.kind = "on_epoch_end" =>
           q.batch = (IF dataset.train_loader = 0 THEN Unbound
                      ELSE dataset.train_loader - 1)
    \* with callbacks, no dispatch is left out and each one is complete
    /\ callbacks # <<>> =>
           /\ p.kind = "forward" =>
                  q.kind = (IF p.batch = 0 THEN "on_epoch_begin"
                            ELSE "on_batch_begin")
           /\ p.kind = "optimizer_step" => q.kind = "on_batch_end"
           /\ (q.kind = "forward" /\ q.batch = 0) => p.kind = "on_epoch_end"
           /\ (p.kind \in Hooks /\ (q.kind # p.kind \/ q.epoch # p.epoch)) =>
                  p.cb = callbacks[Len(callbacks)]
           /\ (q.kind \in Hooks /\ (q.kind # p.kind \/ q.epoch # p.epoch)) =>
                  q.cb = callbacks[1]

\* C15: the events of a call come in one fixed order: the epochs ascend
\* from 1; a batch is [on_epoch_begin for batch 0], on_batch_begin, the
\* optimizer step, on_batch_end, [a validation pass]; on_epoch_end closes
\* the epoch after the validation of its last batch and before the next
\* epoch begins; the loaders and the optimizer are set up once per call,
\* before the first event.
C15_EventOrder ==
    /\ [](Len(trace) > 0 =>
            /\ trace[1].epoch = 1
            /\ trace[1].kind \in {"forward", "on_epoch_end"}
            /\ LastEvent.epoch \in 1..n_epochs
            /\ optimizer # Unbound
            /\ n_batches = dataset.train_loader
            /\ n_eval_batches = Floor(n_batches, val_frequency))
    /\ [](Len(trace) > 1 => InOrder(trace[Len(trace) - 1], LastEvent))
    /\ [][(n_batches' # n_batches \/ n_eval_batches' # n_eval_batches
              \/ optimizer' \notin {optimizer, optimizer + 1})
             => (calls' = calls + 1 /\ trace' = <<>>)]_vars

C15_Witness ==
    /\ pc = "done"
    /\ epoch = 2
    /\ Len(callbacks) = 2
    /\ dataset.train_loader >= 2
    /\ dataset.validation_loader >= 1
    /\ Happened("val_forward")
    /\ LastEvent.kind = "on_epoch_end"
    /\ trace[Len(trace) - 2].kind = "validation_report"

\* The parameter version the running call started from.
ModelAtCall == IF calls <= 1 THEN 0 ELSE first.model

\* C16: the optimizer steps once per training batch and nowhere else: a
\* call that returns has made n_epochs * n_batches parameter updates,
\* whatever val_frequency, the validation loader and the callbacks are.
C16_OneStepPerBatch ==
    /\ calls >= 1 =>
           /\ optimizer = Steps
           /\ model = ModelAtCall + Steps
    /\ (Len(trace) > 0 /\ LastEvent.batch # Unbound) =>
           /\ Cardinality(BatchEventsOf("optimizer_step", LastEvent.epoch,
                                        LastEvent.batch)) <= 1
           /\ Steps = (LastEvent.epoch - 1) * dataset.train_loader
                          + LastEvent.batch
                          + Cardinality(BatchEventsOf("optimizer_step",
                                LastEvent.epoch, LastEvent.batch))
    /\ pc = "done" =>
           /\ Steps = n_epochs * dataset.train_loader
           /\ model = ModelAtCall + n_epochs * dataset.train_loader

C16_Witness ==
    /\ pc = "done"
    /\ calls = 2
    /\ n_epochs = 2
    /\ dataset.train_loader = 3
    /\ val_frequency = 2
    /\ dataset.validation_loader >= 1
    /\ Len(callbacks) = 2
    /\ Steps = 6
    /\ model = 12

\* C17: the loss of a batch is computed once, before the optimizer step,
\* and never again: the on_batch_end context carries the loss the
\* on_batch_begin context of the batch carried, computed from the
\* parameters before the update, and outside validation the model is
\* called once per training batch.
C17_LossFromBeforeTheStep ==
    (Len(trace) > 0 /\ LastEvent.batch # Unbound) =>
        /\ Cardinality(BatchEventsOf("forward", LastEvent.epoch,
                                     LastEvent.batch)) = 1
        /\ \A i \in BatchEventsOf("forward", LastEvent.epoch,
                                   LastEvent.batch) :
               /\ LastEvent.loss = trace[i].loss
               /\ trace[i].loss
                      = Forward(trace[i].model,
                                [loader |-> "train", index |-> trace[i].batch])
        /\ LastEvent.kind = "on_batch_end" =>
               /\ LastEvent.loss.model = LastEvent.model - 1
               /\ \A i \in BatchEventsOf("on_batch_begin", LastEvent.epoch,
                                          LastEvent.batch) :
                      /\ trace[i].loss = LastEvent.loss
                      /\ trace[i].loss.model = trace[i].model

C17_Witness ==
    /\ Len(trace) > 0
    /\ LastEvent.kind = "on_batch_end"
    /\ LastEvent.batch >= 1
    /\ Len(callbacks) = 2
    /\ LastEvent.model >= 2
    /\ LastEvent.loss.model = LastEvent.model - 1

TypeOK ==
    /\ pc \in {"idle", "epoch_loop", "batch_loop", "optimize", "val_check",
               "validate", "done", "aborted"} \cup Hooks
    /\ error \in {"none", "callback", "ZeroDivisionError"}
    /\ cb \in 1..(Len(callbacks) + 1)
    /\ calls \in 0..MaxCalls
====
